---- MODULE Spec2Model ----
(***************************************************************************)
(* Model of the runtime-rs shim's protocol adaptation layer:               *)
(*   - runtimes/common/src/types/trans_from_shim.rs (wire request decoder) *)
(*   - runtimes/common/src/types/trans_into_shim.rs (wire response encoder)*)
(*   - service/src/sandbox_service.rs               (sandbox RPC service)  *)
(*   - runtimes/common/src/sandbox.rs               (lifecycle contract)   *)
(*   - monitor/src/metrics.rs                       (monitor metrics)      *)
(*                                                                         *)
(* Two specifications share the variables: Spec applies one conversion or  *)
(* runs the sandbox service under concurrent callers; MonitorSpec runs     *)
(* concurrent get_metrics calls.                                           *)
(*                                                                         *)
(* The decoder and the encoder are pure conversions.  Each conversion is   *)
(* an operator; an action applies one conversion to an input drawn from a  *)
(* bounded set and records the operation, its input and its result in the  *)
(* state, as does an RPC when it replies.  An RPC that calls the           *)
(* handler takes two steps, one up to the handler call it awaits and one   *)
(* from the handler's answer to its reply; the RPCs of other callers run   *)
(* in between.                                                             *)
(*                                                                         *)
(* Representation:                                                         *)
(*   Option<T>        None = << >>, Some(x) = <<x>>                        *)
(*   Result<T, E>     [ok, val, err]: Ok(v) has val = <<v>>, err = << >>;  *)
(*                    Err(e) has val = << >>, err = <<e>>                  *)
(*   Vec<u8>          a sequence of numbers 0..255                         *)
(*   String           a TLA+ string, except a String parsed out of bytes,  *)
(*                    which is kept as its sequence of UTF-8 bytes         *)
(*   SystemTime       [sec, nsec] as the platform's timespec: sec is the   *)
(*                    signed number of whole seconds from the Unix epoch   *)
(*   u32 made by `as` [hi, lo], the two 16-bit halves of the value         *)
(***************************************************************************)
EXTENDS Integers, Sequences, FiniteSets, Bags, TLC

VARIABLES
    op,       \* the operation applied last
    arg,      \* its input
    ret,      \* its result
    trace,    \* the handler operations the last RPC invoked, in order
    pending,  \* the RPCs that await their handler call, as a bag
    once,          \* INIT_REGISTER, the state of the Once
    registry,      \* REGISTRY, the names of the metrics registered
    scrape_count,  \* MONITOR_SCRAPE_COUNT
    gauges,        \* MONITOR_MAX_FDS, MONITOR_OPEN_FDS, MONITOR_RESIDENT_MEMORY
    pc,            \* per get_metrics call, where it stands
    idx,           \* per get_metrics call, the register_metrics line it is at
    registered,    \* how many times register_metrics has returned Ok
    scrapes        \* per get_metrics call, what it gathered

convVars == <<op, arg, ret, trace>>
monVars == <<once, registry, scrape_count, gauges, pc, idx, registered, scrapes>>
vars == <<op, arg, ret, trace, pending,
          once, registry, scrape_count, gauges, pc, idx, registered, scrapes>>

(***************************************************************************)
(* Bounds of the model.                                                    *)
(***************************************************************************)
MaxOpts == 3     \* longest option list of a wire mount
MaxMounts == 1   \* longest rootfs list of a request
MaxCallers == 2  \* most RPCs of the sandbox service in flight at once
MaxScrapes == 2  \* concurrent get_metrics calls

(***************************************************************************)
(* Option and Result.                                                      *)
(***************************************************************************)
None == << >>
Some(x) == <<x>>
Option(S) == {None} \cup {Some(x) : x \in S}

Ok(v) == [ok |-> TRUE, val |-> <<v>>, err |-> << >>]
Err(e) == [ok |-> FALSE, val |-> << >>, err |-> <<e>>]

\* anyhow::Error: what went wrong, the value it names, and the contexts
\* attached on the way out (outermost first)
Error(kind, cause) == [kind |-> kind, cause |-> cause, context |-> << >>]

\* anyhow::Context::context on a Result
with_context(r, c) ==
    IF r.ok THEN r ELSE Err([r.err[1] EXCEPT !.context = <<c>> \o @])

SeqsUpTo(S, n) == UNION {[1..k -> S] : k \in 0..n}

(***************************************************************************)
(* trans_from_shim.rs                                                      *)
(***************************************************************************)
SANDBOX_API_V1 == "runtime.v1.PodSandboxConfig"

\* the `for o in &options { if o == "ro" { read_only = true; break; } }` loop,
\* started at index i with read_only = false
RECURSIVE scan_ro(_, _)
scan_ro(options, i) ==
    IF i > Len(options) THEN FALSE
    ELSE IF options[i] = "ro" THEN TRUE
    ELSE scan_ro(options, i + 1)

\* a plausible slip: only the first option is looked at
trans_from_shim_mount_first_only(from) ==
    [source |-> from.source,
     destination |-> from.target,
     fs_type |-> from.type_,
     options |-> from.options,
     device_id |-> None,
     host_shared_fs_path |-> None,
     read_only |-> (Len(from.options) > 0 /\ from.options[1] = "ro")]

\* fn trans_from_shim_mount(from: &api::Mount) -> Mount.  PathBuf::from keeps
\* the target's bytes as they are.
trans_from_shim_mount(from) ==
    [source |-> from.source,
     destination |-> from.target,
     fs_type |-> from.type_,
     options |-> from.options,
     device_id |-> None,
     host_shared_fs_path |-> None,
     read_only |-> scan_ro(from.options, 1)]

\* from.rootfs.iter().map(trans_from_shim_mount).collect()
map_trans_from_shim_mount(rootfs) ==
    [i \in 1..Len(rootfs) |-> trans_from_shim_mount(rootfs[i])]

\* A protobuf MessageField<Any> read through Deref: the default instance
\* when the field is unset.
AnyOrDefault(field) ==
    IF field = None THEN [type_url |-> "", value |-> << >>] ELSE field[1]

(***************************************************************************)
(* cri_api_v1::PodSandboxConfig::parse_from_bytes, as far as the decoder   *)
(* uses its result: tag 18 is hostname (field 2, a string), tag 58 is one  *)
(* entry of annotations (field 7, a map entry with key = tag 10 and        *)
(* value = tag 18); a field of any other tag is skipped by its wire type.  *)
(* A zero field number, a wire type above 5, or a field that runs past the *)
(* end of the buffer is a parse error.  The inputs keep to single-byte     *)
(* tags and lengths, ASCII strings and no groups (wire types 3 and 4).     *)
(***************************************************************************)
ParseError(why) == Error("protobuf parse error", why)

\* the index of the last byte of the varint that starts at j, 0 if it is cut off
RECURSIVE varint_end(_, _)
varint_end(bytes, j) ==
    IF j > Len(bytes) THEN 0
    ELSE IF bytes[j] < 128 THEN j
    ELSE varint_end(bytes, j + 1)

\* the index of the last byte of the field whose tag is at i, 0 if malformed
field_end(bytes, i) ==
    IF bytes[i] >= 128 \/ bytes[i] \div 8 = 0 THEN 0
    ELSE CASE bytes[i] % 8 = 0 -> varint_end(bytes, i + 1)
           [] bytes[i] % 8 = 1 -> IF i + 8 <= Len(bytes) THEN i + 8 ELSE 0
           [] bytes[i] % 8 = 5 -> IF i + 4 <= Len(bytes) THEN i + 4 ELSE 0
           [] bytes[i] % 8 = 2 ->
                IF i + 1 > Len(bytes) \/ bytes[i + 1] >= 128
                   \/ i + 1 + bytes[i + 1] > Len(bytes)
                THEN 0 ELSE i + 1 + bytes[i + 1]
           [] OTHER -> 0

\* one map entry: Ok([key, value]) or the parse error
RECURSIVE parse_map_entry(_, _, _)
parse_map_entry(bytes, i, entry) ==
    IF i > Len(bytes) THEN Ok(entry)
    ELSE IF field_end(bytes, i) = 0 THEN Err(ParseError("malformed field"))
    ELSE LET payload == SubSeq(bytes, i + 2, field_end(bytes, i))
         IN  parse_map_entry(bytes, field_end(bytes, i) + 1,
                 IF bytes[i] = 10 THEN [entry EXCEPT !.key = payload]
                 ELSE IF bytes[i] = 18 THEN [entry EXCEPT !.value = payload]
                 ELSE entry)

\* HashMap::insert: a later entry with the same key replaces the earlier one
MapInsert(m, e) == {x \in m : x.key # e.key} \cup {e}

RECURSIVE parse_fields(_, _, _)
parse_fields(bytes, i, config) ==
    IF i > Len(bytes) THEN Ok(config)
    ELSE IF field_end(bytes, i) = 0 THEN Err(ParseError("malformed field"))
    ELSE LET payload == SubSeq(bytes, i + 2, field_end(bytes, i))
             next == field_end(bytes, i) + 1
         IN  IF bytes[i] = 18
             THEN parse_fields(bytes, next, [config EXCEPT !.hostname = payload])
             ELSE IF bytes[i] = 58
             THEN LET e == parse_map_entry(payload, 1, [key |-> << >>, value |-> << >>])
                  IN  IF e.ok
                      THEN parse_fields(bytes, next,
                               [config EXCEPT !.annotations = MapInsert(@, e.val[1])])
                      ELSE e
             ELSE parse_fields(bytes, next, config)

\* starts from PodSandboxConfig::default()
parse_from_bytes(bytes) ==
    parse_fields(bytes, 1, [hostname |-> << >>, annotations |-> {}])

(***************************************************************************)
(* ContainerID::new and ContainerProcess::new (types/mod.rs): construction *)
(* validates the identity and fails when it is invalid; an empty exec_id   *)
(* denotes the container's main process.                                   *)
(***************************************************************************)
WellFormedIds == {"c1", "e1"}

verify_id(id) == id \in WellFormedIds

ContainerID_new(container_id) ==
    IF verify_id(container_id)
    THEN Ok([container_id |-> container_id])
    ELSE Err(Error("invalid identity", container_id))

ContainerProcess_new(container_id, exec_id) ==
    IF exec_id # "" /\ ~verify_id(exec_id)
    THEN Err(Error("invalid identity", exec_id))
    ELSE LET cid == ContainerID_new(container_id)
         IN  IF ~cid.ok THEN cid
             ELSE Ok([container_id |-> cid.val[1],
                      exec_id |-> IF exec_id = "" THEN None ELSE Some(exec_id)])

(***************************************************************************)
(* impl TryFrom<sandbox_api::*Request> for SandboxRequest                  *)
(***************************************************************************)
TryFrom_CreateSandboxRequest(from) ==
    LET type_url == AnyOrDefault(from.options).type_url
        config == parse_from_bytes(AnyOrDefault(from.options).value)
    IN  IF type_url # SANDBOX_API_V1
        THEN Err(Error("unsupported type url", type_url))
        ELSE IF ~config.ok THEN config
        ELSE Ok([variant |-> "CreateSandbox",
                 sandbox_id |-> from.sandbox_id,
                 bundle_path |-> from.bundle_path,
                 rootfs_mounts |-> map_trans_from_shim_mount(from.rootfs),
                 type_url |-> type_url,
                 hostname |-> config.val[1].hostname,
                 annotations |-> config.val[1].annotations,
                 netns_path |-> from.netns_path])

TryFrom_StartSandboxRequest(from) ==
    Ok([variant |-> "StartSandbox", sandbox_id |-> from.sandbox_id])

TryFrom_PlatformRequest(from) ==
    Ok([variant |-> "Platform", sandbox_id |-> from.sandbox_id])

TryFrom_StopSandboxRequest(from) ==
    Ok([variant |-> "StopSandbox",
        sandbox_id |-> from.sandbox_id,
        timeout_secs |-> from.timeout_secs])

TryFrom_WaitSandboxRequest(from) ==
    Ok([variant |-> "WaitSandbox", sandbox_id |-> from.sandbox_id])

TryFrom_SandboxStatusRequest(from) ==
    Ok([variant |-> "SandboxStatus",
        sandbox_id |-> from.sandbox_id,
        verbose |-> from.verbose])

TryFrom_PingRequest(from) ==
    Ok([variant |-> "Ping", sandbox_id |-> from.sandbox_id])

TryFrom_ShutdownSandboxRequest(from) ==
    Ok([variant |-> "ShutdownSandbox", sandbox_id |-> from.sandbox_id])

(***************************************************************************)
(* impl TryFrom<api::*Request> for TaskRequest                             *)
(***************************************************************************)
\* (!s.is_empty()).then(|| s.clone())
non_empty_then(s) == IF s # "" THEN Some(s) ELSE None

\* a plausible slip: the path is wrapped without the emptiness test
TryFrom_CreateTaskRequest_keep_empty(from) ==
    Ok([variant |-> "CreateContainer",
        container_id |-> from.id,
        bundle |-> from.bundle,
        rootfs_mounts |-> map_trans_from_shim_mount(from.rootfs),
        terminal |-> from.terminal,
        options |-> IF from.options # None THEN Some(from.options[1].value) ELSE None,
        stdin |-> Some(from.stdin),
        stdout |-> non_empty_then(from.stdout),
        stderr |-> non_empty_then(from.stderr)])

TryFrom_CreateTaskRequest(from) ==
    Ok([variant |-> "CreateContainer",
        container_id |-> from.id,
        bundle |-> from.bundle,
        rootfs_mounts |-> map_trans_from_shim_mount(from.rootfs),
        terminal |-> from.terminal,
        options |-> IF from.options # None THEN Some(from.options[1].value) ELSE None,
        stdin |-> non_empty_then(from.stdin),
        stdout |-> non_empty_then(from.stdout),
        stderr |-> non_empty_then(from.stderr)])

TryFrom_CloseIORequest(from) ==
    LET p == with_context(ContainerProcess_new(from.id, from.exec_id), "new process id")
    IN  IF ~p.ok THEN p
        ELSE Ok([variant |-> "CloseProcessIO", process |-> p.val[1]])

TryFrom_DeleteRequest(from) ==
    LET p == with_context(ContainerProcess_new(from.id, from.exec_id), "new process id")
    IN  IF ~p.ok THEN p
        ELSE Ok([variant |-> "DeleteProcess", process |-> p.val[1]])

\* a plausible slip: the spec's bytes are not carried over
TryFrom_ExecProcessRequest_no_spec_value(from) ==
    LET spec == AnyOrDefault(from.spec)
        p == with_context(ContainerProcess_new(from.id, from.exec_id), "new process id")
    IN  IF ~p.ok THEN p
        ELSE Ok([variant |-> "ExecProcess",
                 process |-> p.val[1],
                 terminal |-> from.terminal,
                 stdin |-> non_empty_then(from.stdin),
                 stdout |-> non_empty_then(from.stdout),
                 stderr |-> non_empty_then(from.stderr),
                 spec_type_url |-> spec.type_url,
                 spec_value |-> << >>])

TryFrom_ExecProcessRequest(from) ==
    LET spec == AnyOrDefault(from.spec)
        p == with_context(ContainerProcess_new(from.id, from.exec_id), "new process id")
    IN  IF ~p.ok THEN p
        ELSE Ok([variant |-> "ExecProcess",
                 process |-> p.val[1],
                 terminal |-> from.terminal,
                 stdin |-> non_empty_then(from.stdin),
                 stdout |-> non_empty_then(from.stdout),
                 stderr |-> non_empty_then(from.stderr),
                 spec_type_url |-> spec.type_url,
                 spec_value |-> spec.value])

\* a plausible slip: the identity error is swallowed and the command is built
\* from the raw ids
TryFrom_KillRequest_unvalidated(from) ==
    Ok([variant |-> "KillProcess",
        process |-> [container_id |-> [container_id |-> from.id],
                     exec_id |-> IF from.exec_id = "" THEN None ELSE Some(from.exec_id)],
        signal |-> from.signal,
        all |-> from.all])

TryFrom_KillRequest(from) ==
    LET p == with_context(ContainerProcess_new(from.id, from.exec_id), "new process id")
    IN  IF ~p.ok THEN p
        ELSE Ok([variant |-> "KillProcess",
                 process |-> p.val[1],
                 signal |-> from.signal,
                 all |-> from.all])

TryFrom_WaitRequest(from) ==
    LET p == with_context(ContainerProcess_new(from.id, from.exec_id), "new process id")
    IN  IF ~p.ok THEN p
        ELSE Ok([variant |-> "WaitProcess", process |-> p.val[1]])

TryFrom_StartRequest(from) ==
    LET p == with_context(ContainerProcess_new(from.id, from.exec_id), "new process id")
    IN  IF ~p.ok THEN p
        ELSE Ok([variant |-> "StartProcess", process |-> p.val[1]])

TryFrom_StateRequest(from) ==
    LET p == with_context(ContainerProcess_new(from.id, from.exec_id), "new process id")
    IN  IF ~p.ok THEN p
        ELSE Ok([variant |-> "StateProcess", process |-> p.val[1]])

\* a plausible slip: the id is validated as for the container-addressing calls
TryFrom_ShutdownRequest_validated(from) ==
    LET c == ContainerID_new(from.id)
    IN  IF ~c.ok THEN c
        ELSE Ok([variant |-> "ShutdownContainer",
                 container_id |-> from.id,
                 is_now |-> from.now])

TryFrom_ShutdownRequest(from) ==
    Ok([variant |-> "ShutdownContainer",
        container_id |-> from.id,
        is_now |-> from.now])

TryFrom_ResizePtyRequest(from) ==
    LET p == with_context(ContainerProcess_new(from.id, from.exec_id), "new process id")
    IN  IF ~p.ok THEN p
        ELSE Ok([variant |-> "ResizeProcessPTY",
                 process |-> p.val[1],
                 width |-> from.width,
                 height |-> from.height])

TryFrom_PauseRequest(from) ==
    LET c == ContainerID_new(from.id)
    IN  IF ~c.ok THEN c
        ELSE Ok([variant |-> "PauseContainer", container_id |-> c.val[1]])

TryFrom_ResumeRequest(from) ==
    LET c == ContainerID_new(from.id)
    IN  IF ~c.ok THEN c
        ELSE Ok([variant |-> "ResumeContainer", container_id |-> c.val[1]])

TryFrom_StatsRequest(from) ==
    LET c == ContainerID_new(from.id)
    IN  IF ~c.ok THEN c
        ELSE Ok([variant |-> "StatsContainer", container_id |-> c.val[1]])

TryFrom_UpdateTaskRequest(from) ==
    Ok([variant |-> "UpdateContainer",
        container_id |-> from.id,
        value |-> AnyOrDefault(from.resources).value])

\* the request is not read: TaskRequest::Pid carries nothing
TryFrom_PidsRequest(from) ==
    Ok([variant |-> "Pid"])

TryFrom_ConnectRequest(from) ==
    LET c == ContainerID_new(from.id)
    IN  IF ~c.ok THEN c
        ELSE Ok([variant |-> "ConnectContainer", container_id |-> c.val[1]])

(***************************************************************************)
(* trans_into_shim.rs                                                      *)
(***************************************************************************)
\* fn system_time_into: duration_since(UNIX_EPOCH) is an error for a time
\* before the epoch and unwrap_or_default() makes it the zero duration;
\* as_secs() drops the sub-second part; the second count of a timespec
\* always fits i64, so try_into() does not fail; nanos stays at its default.
system_time_into(time) ==
    [seconds |-> IF time.sec >= 0 THEN time.sec ELSE 0, nanos |-> 0]

\* a plausible slip: an absent time is encoded as the epoch
option_system_time_into_epoch(time) ==
    IF time # None THEN Some(system_time_into(time[1]))
    ELSE Some([seconds |-> 0, nanos |-> 0])

\* fn option_system_time_into
option_system_time_into(time) ==
    IF time # None THEN Some(system_time_into(time[1])) ELSE None

\* a plausible slip: a checked conversion that falls back to the default,
\* try_into().unwrap_or_default(), in place of the wrapping cast
AsU32_checked(x) ==
    IF x >= 0 THEN [hi |-> x \div 65536, lo |-> x % 65536] ELSE [hi |-> 0, lo |-> 0]

\* `x as u32` of a signed integer: the value modulo 2^32, kept as its two
\* 16-bit halves
AsU32(x) == [hi |-> (x \div 65536) % 65536, lo |-> x % 65536]

\* impl From<ProcessExitStatus> for api::WaitResponse
From_ProcessExitStatus_for_WaitResponse(from) ==
    [message |-> "WaitResponse",
     exit_status |-> AsU32(from.exit_code),
     exited_at |-> option_system_time_into(from.exit_time)]

\* a plausible slip: Exited is given a wire status of its own
From_ProcessStatus_for_Status_split(from) ==
    CASE from = "Unknown" -> "UNKNOWN"
      [] from = "Created" -> "CREATED"
      [] from = "Running" -> "RUNNING"
      [] from = "Stopped" -> "STOPPED"
      [] from = "Paused" -> "PAUSED"
      [] from = "Pausing" -> "PAUSING"
      [] from = "Exited" -> "UNKNOWN"

\* impl From<ProcessStatus> for api::Status
From_ProcessStatus_for_Status(from) ==
    CASE from = "Unknown" -> "UNKNOWN"
      [] from = "Created" -> "CREATED"
      [] from = "Running" -> "RUNNING"
      [] from = "Stopped" -> "STOPPED"
      [] from = "Paused" -> "PAUSED"
      [] from = "Pausing" -> "PAUSING"
      [] from = "Exited" -> "STOPPED"

\* Option<String>::unwrap_or_default
unwrap_or_default(o) == IF o # None THEN o[1] ELSE ""

\* a plausible slip: an absent stdin is written as a placeholder path
From_ProcessStateInfo_for_StateResponse_placeholder(from) ==
    [message |-> "StateResponse",
     id |-> from.container_id,
     bundle |-> from.bundle,
     pid |-> from.pid.pid,
     status |-> From_ProcessStatus_for_Status(from.status),
     stdin |-> IF from.stdin # None THEN from.stdin[1] ELSE "-",
     stdout |-> unwrap_or_default(from.stdout),
     stderr |-> unwrap_or_default(from.stderr),
     terminal |-> from.terminal,
     exit_status |-> AsU32(from.exit_status),
     exited_at |-> option_system_time_into(from.exited_at),
     exec_id |-> from.exec_id]

\* impl From<ProcessStateInfo> for api::StateResponse
From_ProcessStateInfo_for_StateResponse(from) ==
    [message |-> "StateResponse",
     id |-> from.container_id,
     bundle |-> from.bundle,
     pid |-> from.pid.pid,
     status |-> From_ProcessStatus_for_Status(from.status),
     stdin |-> unwrap_or_default(from.stdin),
     stdout |-> unwrap_or_default(from.stdout),
     stderr |-> unwrap_or_default(from.stderr),
     terminal |-> from.terminal,
     exit_status |-> AsU32(from.exit_status),
     exited_at |-> option_system_time_into(from.exited_at),
     exec_id |-> from.exec_id]

\* impl From<ProcessStateInfo> for api::DeleteResponse
From_ProcessStateInfo_for_DeleteResponse(from) ==
    [message |-> "DeleteResponse",
     pid |-> from.pid.pid,
     exit_status |-> AsU32(from.exit_status),
     exited_at |-> option_system_time_into(from.exited_at)]

\* std::any::type_name::<Self>(), by the type's own name (the last segment
\* of the path it returns)
type_name(T) == T

\* Err(anyhow!(Error::UnexpectedResponse(from, type_name::<Self>().to_string())))
UnexpectedResponse(from, T) ==
    Err(Error("UnexpectedResponse", [response |-> from, type_name |-> type_name(T)]))

TryFrom_TaskResponse_for_CreateTaskResponse(from) ==
    IF from.variant = "CreateContainer"
    THEN Ok([message |-> "CreateTaskResponse", pid |-> from.resp.pid])
    ELSE UnexpectedResponse(from, "CreateTaskResponse")

TryFrom_TaskResponse_for_DeleteResponse(from) ==
    IF from.variant = "DeleteProcess"
    THEN Ok(From_ProcessStateInfo_for_DeleteResponse(from.resp))
    ELSE UnexpectedResponse(from, "DeleteResponse")

TryFrom_TaskResponse_for_WaitResponse(from) ==
    IF from.variant = "WaitProcess"
    THEN Ok(From_ProcessExitStatus_for_WaitResponse(from.resp))
    ELSE UnexpectedResponse(from, "WaitResponse")

TryFrom_TaskResponse_for_StartResponse(from) ==
    IF from.variant = "StartProcess"
    THEN Ok([message |-> "StartResponse", pid |-> from.resp.pid])
    ELSE UnexpectedResponse(from, "StartResponse")

TryFrom_TaskResponse_for_StateResponse(from) ==
    IF from.variant = "StateProcess"
    THEN Ok(From_ProcessStateInfo_for_StateResponse(from.resp))
    ELSE UnexpectedResponse(from, "StateResponse")

\* `response.set_stats(any)` only when the payload is there
TryFrom_TaskResponse_for_StatsResponse(from) ==
    IF from.variant = "StatsContainer"
    THEN Ok([message |-> "StatsResponse",
             stats |-> IF from.resp.value # None
                       THEN Some([type_url |-> from.resp.value[1].type_url,
                                  value |-> from.resp.value[1].value])
                       ELSE None])
    ELSE UnexpectedResponse(from, "StatsResponse")

TryFrom_TaskResponse_for_PidsResponse(from) ==
    IF from.variant = "Pid"
    THEN Ok([message |-> "PidsResponse",
             processes |-> <<[pid |-> from.resp.pid, info |-> None]>>])
    ELSE UnexpectedResponse(from, "PidsResponse")

\* a plausible slip: a catch-all arm that answers with the default response
TryFrom_TaskResponse_for_ConnectResponse_default(from) ==
    IF from.variant = "ConnectContainer"
    THEN Ok([message |-> "ConnectResponse",
             shim_pid |-> from.resp.pid, task_pid |-> 0, version |-> ""])
    ELSE Ok([message |-> "ConnectResponse",
             shim_pid |-> 0, task_pid |-> 0, version |-> ""])

TryFrom_TaskResponse_for_ConnectResponse(from) ==
    IF from.variant = "ConnectContainer"
    THEN Ok([message |-> "ConnectResponse",
             shim_pid |-> from.resp.pid, task_pid |-> 0, version |-> ""])
    ELSE UnexpectedResponse(from, "ConnectResponse")

TryFrom_TaskResponse_for_Empty(from) ==
    IF from.variant = "CloseProcessIO" THEN Ok([message |-> "Empty"])
    ELSE IF from.variant = "ExecProcess" THEN Ok([message |-> "Empty"])
    ELSE IF from.variant = "KillProcess" THEN Ok([message |-> "Empty"])
    ELSE IF from.variant = "ShutdownContainer" THEN Ok([message |-> "Empty"])
    ELSE IF from.variant = "PauseContainer" THEN Ok([message |-> "Empty"])
    ELSE IF from.variant = "ResumeContainer" THEN Ok([message |-> "Empty"])
    ELSE IF from.variant = "ResizeProcessPTY" THEN Ok([message |-> "Empty"])
    ELSE IF from.variant = "UpdateContainer" THEN Ok([message |-> "Empty"])
    ELSE UnexpectedResponse(from, "Empty")

(***************************************************************************)
(* sandbox_service.rs: impl sandbox_async::Sandbox for SandboxService.     *)
(* Each RPC is given the request and the outcome h of the handler call it  *)
(* awaits (a Result), and yields the RPC's result together with the        *)
(* handler operations it invoked.                                          *)
(***************************************************************************)
RpcStatus(code, message) == [error |-> "RpcStatus", code |-> code, message |-> message]
Others(message) == [error |-> "Others", message |-> message]

Rpc(result, invoked) == [ret |-> result, trace |-> invoked]

\* a plausible slip: the handler is called before the type-url is looked at
create_sandbox_late_check(req, h) ==
    LET options == AnyOrDefault(req.options)
        pod_config == parse_from_bytes(options.value)
        opt == [hostname |-> IF pod_config.ok THEN pod_config.val[1].hostname ELSE << >>,
                dns |-> << >>,
                network_env |-> [netns |-> Some(req.netns_path),
                                 network_created |-> FALSE],
                annotations |-> IF pod_config.ok
                                THEN pod_config.val[1].annotations ELSE {}]
        invoked == <<[call |-> "sandbox_api_create", opt |-> opt]>>
    IN  IF options.type_url # "runtime.v1.PodSandboxConfig"
        THEN Rpc(Err(RpcStatus("INVALID_ARGUMENT",
                               <<options.type_url, " is not supported">>)), invoked)
        ELSE IF ~pod_config.ok
        THEN Rpc(Err(Others(<<"failed to parse pod config: ", pod_config.err[1]>>)),
                 << >>)
        ELSE IF ~h.ok
        THEN Rpc(Err(Others(<<"failed to create: ", h.err[1]>>)), invoked)
        ELSE Rpc(Ok([message |-> "CreateSandboxResponse"]), invoked)

create_sandbox(req, h) ==
    LET options == AnyOrDefault(req.options)
        pod_config == parse_from_bytes(options.value)
        opt == [hostname |-> pod_config.val[1].hostname,
                dns |-> << >>,
                network_env |-> [netns |-> Some(req.netns_path),
                                 network_created |-> FALSE],
                annotations |-> pod_config.val[1].annotations]
        invoked == <<[call |-> "sandbox_api_create", opt |-> opt]>>
    IN  IF options.type_url # "runtime.v1.PodSandboxConfig"
        THEN Rpc(Err(RpcStatus("INVALID_ARGUMENT",
                               <<options.type_url, " is not supported">>)), << >>)
        ELSE IF ~pod_config.ok
        THEN Rpc(Err(Others(<<"failed to parse pod config: ", pod_config.err[1]>>)),
                 << >>)
        ELSE IF ~h.ok
        THEN Rpc(Err(Others(<<"failed to create: ", h.err[1]>>)), invoked)
        ELSE Rpc(Ok([message |-> "CreateSandboxResponse"]), invoked)

\* pid is std::process::id() and now is Timestamp::now()
start_sandbox(req, h, pid, now) ==
    LET invoked == <<[call |-> "sandbox_api_start"]>>
    IN  IF ~h.ok
        THEN Rpc(Err(Others(<<"failed to start: ", h.err[1]>>)), invoked)
        ELSE Rpc(Ok([message |-> "StartSandboxResponse",
                     pid |-> pid,
                     created_at |-> Some(now)]), invoked)

platform(req) ==
    Rpc(Ok([message |-> "PlatformResponse",
            platform |-> Some([os |-> "linux", architecture |-> "amd64"])]), << >>)

\* a plausible slip: a failed stop is tried once more before the error is
\* returned
stop_sandbox_retry(req, h) ==
    LET invoked == <<[call |-> "sandbox_api_stop"]>>
    IN  IF ~h.ok
        THEN Rpc(Err(Others(<<"failed to stop: ", h.err[1]>>)), invoked \o invoked)
        ELSE Rpc(Ok([message |-> "StopSandboxResponse"]), invoked)

stop_sandbox(req, h) ==
    LET invoked == <<[call |-> "sandbox_api_stop"]>>
    IN  IF ~h.ok
        THEN Rpc(Err(Others(<<"failed to stop: ", h.err[1]>>)), invoked)
        ELSE Rpc(Ok([message |-> "StopSandboxResponse"]), invoked)

wait_sandbox(req, h) ==
    LET invoked == <<[call |-> "sandbox_api_wait"]>>
    IN  IF ~h.ok
        THEN Rpc(Err(Others(<<"failed to wait: ", h.err[1]>>)), invoked)
        ELSE Rpc(Ok([message |-> "WaitSandboxResponse"]), invoked)

\* a plausible slip: the response is filled from the request and from the
\* snapshot's free-form info
sandbox_status_echo(req, h) ==
    LET invoked == <<[call |-> "sandbox_api_status"]>>
    IN  IF ~h.ok
        THEN Rpc(Err(Others(<<"failed to status: ", h.err[1]>>)), invoked)
        ELSE Rpc(Ok([message |-> "SandboxStatusResponse",
                     sandbox_id |-> req.sandbox_id,
                     pid |-> h.val[1].pid,
                     state |-> h.val[1].state,
                     info |-> IF req.verbose THEN h.val[1].info ELSE {},
                     created_at |-> None,
                     exited_at |-> None,
                     extra |-> None]), invoked)

\* SandboxStatusResponse::new() leaves info, created_at, exited_at and extra
\* at their defaults
sandbox_status(req, h) ==
    LET invoked == <<[call |-> "sandbox_api_status"]>>
    IN  IF ~h.ok
        THEN Rpc(Err(Others(<<"failed to status: ", h.err[1]>>)), invoked)
        ELSE Rpc(Ok([message |-> "SandboxStatusResponse",
                     sandbox_id |-> h.val[1].sandbox_id,
                     pid |-> h.val[1].pid,
                     state |-> h.val[1].state,
                     info |-> {},
                     created_at |-> None,
                     exited_at |-> None,
                     extra |-> None]), invoked)

ping_sandbox(req) ==
    Rpc(Ok([message |-> "PingResponse"]), << >>)

shutdown_sandbox(req, h) ==
    LET invoked == <<[call |-> "sandbox_api_shutdown"]>>
    IN  IF ~h.ok
        THEN Rpc(Err(Others(<<"failed to shutdown: ", h.err[1]>>)), invoked)
        ELSE Rpc(Ok([message |-> "ShutdownSandboxResponse"]), invoked)

(***************************************************************************)
(* Inputs.  The field values of a request or a result are drawn as a tuple *)
(* and the value is assembled from it.                                     *)
(***************************************************************************)
Bool == {TRUE, FALSE}

OptSet == {"ro", "rw", "RO"}
ApiMount(t) == [source |-> t[1], target |-> t[2], type_ |-> t[3], options |-> t[4]]
WireMounts == {"", "/src"} \X {"/dst"} \X {"bind"} \X SeqsUpTo(OptSet, MaxOpts)
RootfsMounts == {"/src"} \X {"/rootfs"} \X {"bind"} \X {<< >>, <<"ro">>, <<"rw", "ro">>}
RootfsLists == SeqsUpTo(RootfsMounts, MaxMounts)
Rootfs(l) == [i \in 1..Len(l) |-> ApiMount(l[i])]

ByteSeqs == {<< >>, <<1, 2, 3>>}
ProtoAny(t) == [type_url |-> t[1], value |-> t[2]]
OptionAny(o) == IF o = None THEN None ELSE Some(ProtoAny(o[1]))
Anys == {"", "x"} \X ByteSeqs

\* nothing; hostname "h"; hostname cut short; annotation k = v; a skipped varint
\* field, then hostname "h"; a tag cut short; a tag of wire type 7
PodConfigBytes ==
    {<< >>, <<18, 1, 104>>, <<18, 2, 104>>, <<58, 6, 10, 1, 107, 18, 1, 118>>,
     <<8, 1, 18, 1, 104>>, <<255>>, <<23>>}
TypeUrls == {SANDBOX_API_V1, "", "runtime.v1alpha2.PodSandboxConfig"}
PodConfigAnys == TypeUrls \X PodConfigBytes

SandboxIds == {"", "sb1"}
IdSet == {"", "c1", "a/b"}
ExecIdSet == {"", "e1", "a/b"}
PathSet == {"", "/io"}

CreateSandboxRequest(t) ==
    [sandbox_id |-> t[1], bundle_path |-> t[2], rootfs |-> Rootfs(t[3]),
     options |-> OptionAny(t[4]), netns_path |-> t[5]]
CreateSandboxRequests ==
    {"sb1"} \X {"/b"} \X RootfsLists \X Option(PodConfigAnys) \X {"", "/ns"}
\* the create requests the service is called with: the service reads options
\* and netns_path only
ServiceCreateRequests ==
    {"sb1"} \X {"/b"} \X {<< >>} \X Option(PodConfigAnys) \X {"/ns"}
SandboxIdRequest(t) == [sandbox_id |-> t[1]]
SandboxIdRequests == SandboxIds \X {0}
StopSandboxRequest(t) == [sandbox_id |-> t[1], timeout_secs |-> t[2]]
StopSandboxRequests == SandboxIds \X {0, 10}
SandboxStatusRequest(t) == [sandbox_id |-> t[1], verbose |-> t[2]]
SandboxStatusRequests == SandboxIds \X Bool

CreateTaskRequest(t) ==
    [id |-> t[1], bundle |-> t[2], rootfs |-> Rootfs(t[3]), terminal |-> t[4],
     options |-> OptionAny(t[5]), stdin |-> t[6], stdout |-> t[7], stderr |-> t[8]]
CreateTaskRequests ==
    IdSet \X {"/b"} \X RootfsLists \X Bool \X Option(Anys) \X PathSet \X PathSet \X PathSet
ProcessRequest(t) == [id |-> t[1], exec_id |-> t[2]]
ProcessRequests == IdSet \X ExecIdSet
ExecProcessRequest(t) ==
    [id |-> t[1], exec_id |-> t[2], terminal |-> t[3], stdin |-> t[4],
     stdout |-> t[5], stderr |-> t[6], spec |-> OptionAny(t[7])]
ExecProcessRequests ==
    IdSet \X ExecIdSet \X Bool \X PathSet \X PathSet \X PathSet \X Option(Anys)
KillRequest(t) == [id |-> t[1], exec_id |-> t[2], signal |-> t[3], all |-> t[4]]
KillRequests == IdSet \X ExecIdSet \X {9, 15} \X Bool
ShutdownRequest(t) == [id |-> t[1], now |-> t[2]]
ShutdownRequests == IdSet \X Bool
ResizePtyRequest(t) == [id |-> t[1], exec_id |-> t[2], width |-> t[3], height |-> t[4]]
ResizePtyRequests == IdSet \X ExecIdSet \X {0, 80} \X {0, 24}
IdRequest(t) == [id |-> t[1]]
IdRequests == IdSet \X {0}
UpdateTaskRequest(t) == [id |-> t[1], resources |-> OptionAny(t[2])]
UpdateTaskRequests == IdSet \X Option(Anys)

SystemTime(t) == [sec |-> t[1], nsec |-> t[2]]
OptionSystemTime(o) == IF o = None THEN None ELSE Some(SystemTime(o[1]))
Times == {-1, 0, 1700000000} \X {0, 500000000}
\* exit codes are i32: both extremes, a negative code, the scenario's 137 and a
\* code above 16 bits
ExitCodes == {-2147483647 - 1, -1, 0, 137, 65537, 2147483647}
ProcessStatuses ==
    {"Unknown", "Created", "Running", "Stopped", "Paused", "Pausing", "Exited"}
PID(t) == [pid |-> t[1]]
PIDs == {0, 7} \X {0}
ProcessExitStatus(t) == [exit_code |-> t[1], exit_time |-> OptionSystemTime(t[2])]
ProcessExitStatuses == ExitCodes \X Option(Times)
ProcessStateInfo(t) ==
    [container_id |-> t[1], exec_id |-> t[2], pid |-> [pid |-> t[3]], bundle |-> t[4],
     stdin |-> t[5], stdout |-> t[6], stderr |-> t[7], terminal |-> t[8],
     status |-> t[9], exit_status |-> t[10], exited_at |-> OptionSystemTime(t[11])]
ProcessStateInfos ==
    {"c1"} \X {"", "e1"} \X {7} \X {"/b"} \X Option(PathSet) \X Option({"/out"})
    \X Option({"/err"}) \X {TRUE} \X ProcessStatuses \X ExitCodes \X Option(Times)
StatsInfo(t) == [value |-> OptionAny(t[1])]

\* the payloads the TaskResponse variants are tried with
SomeProcessStateInfos ==
    {"c1"} \X {""} \X {7} \X {"/b"} \X {None} \X {Some("/out")} \X {None}
    \X {TRUE} \X {"Running", "Exited"} \X {137} \X {None, Some(<<1700000000, 0>>)}
SomeProcessExitStatuses == {137} \X {None, Some(<<1700000000, 0>>)}

AckVariants ==
    {"CloseProcessIO", "ExecProcess", "KillProcess", "ShutdownContainer",
     "PauseContainer", "ResumeContainer", "ResizeProcessPTY", "UpdateContainer"}
PidVariants == {"CreateContainer", "StartProcess", "Pid", "ConnectContainer"}
StateVariants == {"DeleteProcess", "StateProcess"}

\* a TaskResponse, from its variant and its payload's field values
TaskResponse(t) ==
    IF t[1] \in AckVariants THEN [variant |-> t[1]]
    ELSE [variant |-> t[1],
          resp |-> IF t[1] \in PidVariants THEN PID(t[2])
                   ELSE IF t[1] \in StateVariants THEN ProcessStateInfo(t[2])
                   ELSE IF t[1] = "WaitProcess" THEN ProcessExitStatus(t[2])
                   ELSE StatsInfo(t[2])]
TaskResponses ==
    (PidVariants \X PIDs)
    \cup (StateVariants \X SomeProcessStateInfos)
    \cup ({"WaitProcess"} \X SomeProcessExitStatuses)
    \cup ({"StatsContainer"} \X (Option(Anys) \X {0}))
    \cup (AckVariants \X {<< >>})

\* what the handler (RuntimeHandlerManager) can answer: TRUE for Ok(()),
\* FALSE for an error
HandlerResult(okay) == IF okay THEN Ok("unit") ELSE Err("backend failure")
SandboxStatus(t) ==
    [sandbox_id |-> t[1], pid |-> t[2], state |-> t[3],
     info |-> t[4], create_at |-> t[5], exited_at |-> t[6]]
\* (the fields the service does not read are unset together or set together)
SandboxStatuses ==
    {<<id, pid, state, rest[1], rest[2], rest[3]>> :
        id \in SandboxIds, pid \in {0, 42}, state \in {"", "running"},
        rest \in {<<{}, 0, 0>>, <<{<<"k", "v">>}, 5, 9>>}}
StatusResult(o) == IF o = None THEN Err("backend failure") ELSE Ok(SandboxStatus(o[1]))
ProcessIds == {4242}
Timestamp(t) == [seconds |-> t[1], nanos |-> t[2]]
Nows == {<<1700000000, 0>>, <<1700000001, 5>>}

(***************************************************************************)
(* The state machine: from the idle state one conversion is applied, or    *)
(* the sandbox service serves its callers.                                 *)
(***************************************************************************)
\* the get_metrics calls
Scrapes == 1..MaxScrapes

Init ==
    /\ op = "init"
    /\ arg = << >>
    /\ ret = << >>
    /\ trace = << >>
    /\ pending = EmptyBag
    /\ once = "Incomplete"
    /\ registry = {}
    /\ scrape_count = 0
    /\ gauges = [max_fds |-> 0, open_fds |-> 0, resident_memory |-> 0]
    /\ pc = [t \in Scrapes |-> "idle"]
    /\ idx = [t \in Scrapes |-> 0]
    /\ registered = 0
    /\ scrapes = [t \in Scrapes |-> None]

\* no call has been made yet
Idle == op = "init" /\ pending = EmptyBag

\* a pure conversion applied to input a with result r
Apply(name, a, r) ==
    /\ op' = name
    /\ arg' = a
    /\ ret' = r
    /\ trace' = << >>
    /\ UNCHANGED <<pending, monVars>>

\* an RPC replies to request a, the handler having answered h (None when the
\* RPC has not called it)
Serve(name, a, h, rpc) ==
    /\ op' = name
    /\ arg' = [req |-> a, handler |-> h]
    /\ ret' = rpc.ret
    /\ trace' = rpc.trace
    /\ UNCHANGED monVars

MountNormalize ==
    /\ Idle
    /\ \E t \in WireMounts :
        Apply("trans_from_shim_mount", ApiMount(t), trans_from_shim_mount(ApiMount(t)))

DecodeCreateSandbox ==
    /\ Idle
    /\ \E t \in CreateSandboxRequests :
        Apply("TryFrom<CreateSandboxRequest>", CreateSandboxRequest(t),
              TryFrom_CreateSandboxRequest(CreateSandboxRequest(t)))
DecodeStartSandbox ==
    /\ Idle
    /\ \E t \in SandboxIdRequests :
        Apply("TryFrom<StartSandboxRequest>", SandboxIdRequest(t),
              TryFrom_StartSandboxRequest(SandboxIdRequest(t)))
DecodePlatform ==
    /\ Idle
    /\ \E t \in SandboxIdRequests :
        Apply("TryFrom<PlatformRequest>", SandboxIdRequest(t),
              TryFrom_PlatformRequest(SandboxIdRequest(t)))
DecodeStopSandbox ==
    /\ Idle
    /\ \E t \in StopSandboxRequests :
        Apply("TryFrom<StopSandboxRequest>", StopSandboxRequest(t),
              TryFrom_StopSandboxRequest(StopSandboxRequest(t)))
DecodeWaitSandbox ==
    /\ Idle
    /\ \E t \in SandboxIdRequests :
        Apply("TryFrom<WaitSandboxRequest>", SandboxIdRequest(t),
              TryFrom_WaitSandboxRequest(SandboxIdRequest(t)))
DecodeSandboxStatus ==
    /\ Idle
    /\ \E t \in SandboxStatusRequests :
        Apply("TryFrom<SandboxStatusRequest>", SandboxStatusRequest(t),
              TryFrom_SandboxStatusRequest(SandboxStatusRequest(t)))
DecodePing ==
    /\ Idle
    /\ \E t \in SandboxIdRequests :
        Apply("TryFrom<PingRequest>", SandboxIdRequest(t),
              TryFrom_PingRequest(SandboxIdRequest(t)))
DecodeShutdownSandbox ==
    /\ Idle
    /\ \E t \in SandboxIdRequests :
        Apply("TryFrom<ShutdownSandboxRequest>", SandboxIdRequest(t),
              TryFrom_ShutdownSandboxRequest(SandboxIdRequest(t)))

DecodeCreateTask ==
    /\ Idle
    /\ \E t \in CreateTaskRequests :
        Apply("TryFrom<CreateTaskRequest>", CreateTaskRequest(t),
              TryFrom_CreateTaskRequest(CreateTaskRequest(t)))
DecodeCloseIO ==
    /\ Idle
    /\ \E t \in ProcessRequests :
        Apply("TryFrom<CloseIORequest>", ProcessRequest(t),
              TryFrom_CloseIORequest(ProcessRequest(t)))
DecodeDelete ==
    /\ Idle
    /\ \E t \in ProcessRequests :
        Apply("TryFrom<DeleteRequest>", ProcessRequest(t),
              TryFrom_DeleteRequest(ProcessRequest(t)))
DecodeExec ==
    /\ Idle
    /\ \E t \in ExecProcessRequests :
        Apply("TryFrom<ExecProcessRequest>", ExecProcessRequest(t),
              TryFrom_ExecProcessRequest(ExecProcessRequest(t)))
DecodeKill ==
    /\ Idle
    /\ \E t \in KillRequests :
        Apply("TryFrom<KillRequest>", KillRequest(t), TryFrom_KillRequest(KillRequest(t)))
DecodeWait ==
    /\ Idle
    /\ \E t \in ProcessRequests :
        Apply("TryFrom<WaitRequest>", ProcessRequest(t),
              TryFrom_WaitRequest(ProcessRequest(t)))
DecodeStart ==
    /\ Idle
    /\ \E t \in ProcessRequests :
        Apply("TryFrom<StartRequest>", ProcessRequest(t),
              TryFrom_StartRequest(ProcessRequest(t)))
DecodeState ==
    /\ Idle
    /\ \E t \in ProcessRequests :
        Apply("TryFrom<StateRequest>", ProcessRequest(t),
              TryFrom_StateRequest(ProcessRequest(t)))
DecodeShutdown ==
    /\ Idle
    /\ \E t \in ShutdownRequests :
        Apply("TryFrom<ShutdownRequest>", ShutdownRequest(t),
              TryFrom_ShutdownRequest(ShutdownRequest(t)))
DecodeResizePty ==
    /\ Idle
    /\ \E t \in ResizePtyRequests :
        Apply("TryFrom<ResizePtyRequest>", ResizePtyRequest(t),
              TryFrom_ResizePtyRequest(ResizePtyRequest(t)))
DecodePause ==
    /\ Idle
    /\ \E t \in IdRequests :
        Apply("TryFrom<PauseRequest>", IdRequest(t), TryFrom_PauseRequest(IdRequest(t)))
DecodeResume ==
    /\ Idle
    /\ \E t \in IdRequests :
        Apply("TryFrom<ResumeRequest>", IdRequest(t), TryFrom_ResumeRequest(IdRequest(t)))
DecodeStats ==
    /\ Idle
    /\ \E t \in IdRequests :
        Apply("TryFrom<StatsRequest>", IdRequest(t), TryFrom_StatsRequest(IdRequest(t)))
DecodeUpdateTask ==
    /\ Idle
    /\ \E t \in UpdateTaskRequests :
        Apply("TryFrom<UpdateTaskRequest>", UpdateTaskRequest(t),
              TryFrom_UpdateTaskRequest(UpdateTaskRequest(t)))
DecodePids ==
    /\ Idle
    /\ \E t \in IdRequests :
        Apply("TryFrom<PidsRequest>", IdRequest(t), TryFrom_PidsRequest(IdRequest(t)))
DecodeConnect ==
    /\ Idle
    /\ \E t \in IdRequests :
        Apply("TryFrom<ConnectRequest>", IdRequest(t),
              TryFrom_ConnectRequest(IdRequest(t)))

EncodeTime ==
    /\ Idle
    /\ \E o \in Option(Times) :
        Apply("option_system_time_into", [time |-> OptionSystemTime(o)],
              [exited_at |-> option_system_time_into(OptionSystemTime(o))])
EncodeStatus ==
    /\ Idle
    /\ \E st \in ProcessStatuses :
        Apply("From<ProcessStatus>", [variant |-> st],
              [status |-> From_ProcessStatus_for_Status(st)])
EncodeExitStatus ==
    /\ Idle
    /\ \E t \in ProcessExitStatuses :
        Apply("WaitResponse::from", ProcessExitStatus(t),
              From_ProcessExitStatus_for_WaitResponse(ProcessExitStatus(t)))
EncodeStateInfo ==
    /\ Idle
    /\ \E t \in ProcessStateInfos :
        Apply("StateResponse::from", ProcessStateInfo(t),
              From_ProcessStateInfo_for_StateResponse(ProcessStateInfo(t)))
EncodeDeleteInfo ==
    /\ Idle
    /\ \E t \in ProcessStateInfos :
        Apply("DeleteResponse::from", ProcessStateInfo(t),
              From_ProcessStateInfo_for_DeleteResponse(ProcessStateInfo(t)))

EncodeCreateTaskResponse ==
    /\ Idle
    /\ \E t \in TaskResponses :
        Apply("CreateTaskResponse", TaskResponse(t),
              TryFrom_TaskResponse_for_CreateTaskResponse(TaskResponse(t)))
EncodeDeleteResponse ==
    /\ Idle
    /\ \E t \in TaskResponses :
        Apply("DeleteResponse", TaskResponse(t),
              TryFrom_TaskResponse_for_DeleteResponse(TaskResponse(t)))
EncodeWaitResponse ==
    /\ Idle
    /\ \E t \in TaskResponses :
        Apply("WaitResponse", TaskResponse(t),
              TryFrom_TaskResponse_for_WaitResponse(TaskResponse(t)))
EncodeStartResponse ==
    /\ Idle
    /\ \E t \in TaskResponses :
        Apply("StartResponse", TaskResponse(t),
              TryFrom_TaskResponse_for_StartResponse(TaskResponse(t)))
EncodeStateResponse ==
    /\ Idle
    /\ \E t \in TaskResponses :
        Apply("StateResponse", TaskResponse(t),
              TryFrom_TaskResponse_for_StateResponse(TaskResponse(t)))
EncodeStatsResponse ==
    /\ Idle
    /\ \E t \in TaskResponses :
        Apply("StatsResponse", TaskResponse(t),
              TryFrom_TaskResponse_for_StatsResponse(TaskResponse(t)))
EncodePidsResponse ==
    /\ Idle
    /\ \E t \in TaskResponses :
        Apply("PidsResponse", TaskResponse(t),
              TryFrom_TaskResponse_for_PidsResponse(TaskResponse(t)))
EncodeConnectResponse ==
    /\ Idle
    /\ \E t \in TaskResponses :
        Apply("ConnectResponse", TaskResponse(t),
              TryFrom_TaskResponse_for_ConnectResponse(TaskResponse(t)))
EncodeEmpty ==
    /\ Idle
    /\ \E t \in TaskResponses :
        Apply("Empty", TaskResponse(t), TryFrom_TaskResponse_for_Empty(TaskResponse(t)))

\* the RPCs of the sandbox service
SandboxRpcs ==
    {"create_sandbox", "start_sandbox", "platform", "stop_sandbox", "wait_sandbox",
     "sandbox_status", "ping_sandbox", "shutdown_sandbox"}

\* the service is running: nothing but its RPCs has been applied
Serving == op = "init" \/ op \in SandboxRpcs

\* one more RPC can be in flight
CanCall == BagCardinality(pending) < MaxCallers

\* an RPC has entered the handler calls `invoked` and awaits the answer
Await(name, a, invoked) ==
    /\ pending' = pending (+) SetToBag({[rpc |-> name, req |-> a, trace |-> invoked]})
    /\ UNCHANGED <<convVars, monVars>>

\* an RPC that awaits nothing replies in the step it is called in
Reply(name, a, rpc) ==
    /\ Serve(name, a, None, rpc)
    /\ UNCHANGED pending

\* An RPC up to the handler call it awaits.  The handler calls an RPC enters
\* are the trace of its operator, which is the same whatever the handler
\* answers.  create_sandbox answers a request that fails the type-url check or
\* does not parse without the handler.
RpcCreateSandbox ==
    /\ Serving
    /\ CanCall
    /\ \E t \in ServiceCreateRequests :
        LET req == CreateSandboxRequest(t)
            run == create_sandbox(req, HandlerResult(TRUE))
        IN  IF run.trace = << >>
            THEN Reply("create_sandbox", req, run)
            ELSE Await("create_sandbox", req, run.trace)
RpcStartSandbox ==
    /\ Serving
    /\ CanCall
    /\ \E t \in SandboxIdRequests, pid \in ProcessIds, now \in Nows :
        Await("start_sandbox", SandboxIdRequest(t),
              start_sandbox(SandboxIdRequest(t), HandlerResult(TRUE), pid,
                            Timestamp(now)).trace)
RpcPlatform ==
    /\ Serving
    /\ CanCall
    /\ \E t \in SandboxIdRequests :
        Reply("platform", SandboxIdRequest(t), platform(SandboxIdRequest(t)))
RpcStopSandbox ==
    /\ Serving
    /\ CanCall
    /\ \E t \in StopSandboxRequests :
        Await("stop_sandbox", StopSandboxRequest(t),
              stop_sandbox(StopSandboxRequest(t), HandlerResult(TRUE)).trace)
RpcWaitSandbox ==
    /\ Serving
    /\ CanCall
    /\ \E t \in SandboxIdRequests :
        Await("wait_sandbox", SandboxIdRequest(t),
              wait_sandbox(SandboxIdRequest(t), HandlerResult(TRUE)).trace)
RpcSandboxStatus ==
    /\ Serving
    /\ CanCall
    /\ \E t \in SandboxStatusRequests :
        Await("sandbox_status", SandboxStatusRequest(t),
              sandbox_status(SandboxStatusRequest(t), StatusResult(None)).trace)
RpcPingSandbox ==
    /\ Serving
    /\ CanCall
    /\ \E t \in SandboxIdRequests :
        Reply("ping_sandbox", SandboxIdRequest(t), ping_sandbox(SandboxIdRequest(t)))
RpcShutdownSandbox ==
    /\ Serving
    /\ CanCall
    /\ \E t \in SandboxIdRequests :
        Await("shutdown_sandbox", SandboxIdRequest(t),
              shutdown_sandbox(SandboxIdRequest(t), HandlerResult(TRUE)).trace)

\* what the handler can answer to the call an RPC awaits
HandlerAnswers(name) ==
    IF name = "sandbox_status"
    THEN {StatusResult(o) : o \in Option(SandboxStatuses)}
    ELSE {HandlerResult(okay) : okay \in Bool}

\* the rest of an RPC once the handler has answered h; start_sandbox reads
\* std::process::id() and Timestamp::now() only here
resume(name, a, h, pid, now) ==
    CASE name = "create_sandbox" -> create_sandbox(a, h)
      [] name = "start_sandbox" -> start_sandbox(a, h, pid, now)
      [] name = "stop_sandbox" -> stop_sandbox(a, h)
      [] name = "wait_sandbox" -> wait_sandbox(a, h)
      [] name = "sandbox_status" -> sandbox_status(a, h)
      [] name = "shutdown_sandbox" -> shutdown_sandbox(a, h)

\* the handler answers one of the RPCs in flight, which replies
Return ==
    \E p \in BagToSet(pending) :
        \E h \in HandlerAnswers(p.rpc), pid \in ProcessIds, now \in Nows :
            /\ Serve(p.rpc, p.req, h, resume(p.rpc, p.req, h, pid, Timestamp(now)))
            /\ pending' = pending (-) SetToBag({p})

Next ==
    \/ MountNormalize
    \/ DecodeCreateSandbox \/ DecodeStartSandbox \/ DecodePlatform
    \/ DecodeStopSandbox \/ DecodeWaitSandbox \/ DecodeSandboxStatus
    \/ DecodePing \/ DecodeShutdownSandbox
    \/ DecodeCreateTask \/ DecodeCloseIO \/ DecodeDelete \/ DecodeExec
    \/ DecodeKill \/ DecodeWait \/ DecodeStart \/ DecodeState
    \/ DecodeShutdown \/ DecodeResizePty \/ DecodePause \/ DecodeResume
    \/ DecodeStats \/ DecodeUpdateTask \/ DecodePids \/ DecodeConnect
    \/ EncodeTime \/ EncodeStatus \/ EncodeExitStatus \/ EncodeStateInfo
    \/ EncodeDeleteInfo
    \/ EncodeCreateTaskResponse \/ EncodeDeleteResponse \/ EncodeWaitResponse
    \/ EncodeStartResponse \/ EncodeStateResponse \/ EncodeStatsResponse
    \/ EncodePidsResponse \/ EncodeConnectResponse \/ EncodeEmpty
    \/ RpcCreateSandbox \/ RpcStartSandbox \/ RpcPlatform \/ RpcStopSandbox
    \/ RpcWaitSandbox \/ RpcSandboxStatus \/ RpcPingSandbox \/ RpcShutdownSandbox
    \/ Return

Spec == Init /\ [][Next]_vars

(***************************************************************************)
(* monitor/src/metrics.rs: get_metrics under concurrent callers.  A call   *)
(* goes idle -> init (the spawned task at call_once_force) -> register     *)
(* (inside the closure, one REGISTRY.register per step) -> update ->       *)
(* myself -> file_max -> fd_count -> statm (update_metrics, one line per   *)
(* step) -> gather (one collector per step) -> done, or ends failed when   *)
(* the spawned task has panicked.                                          *)
(***************************************************************************)
\* the four monitor metrics, in the order register_metrics registers them
MonitorMetrics ==
    <<"kata_monitor_scrape_count", "kata_monitor_process_max_fds",
      "kata_monitor_process_open_fds", "kata_monitor_process_resident_memory_bytes">>

\* Registry::register: a collector of a name that is registered already is
\* refused
register(reg, name) ==
    IF name \in reg THEN Err("AlreadyReg") ELSE Ok(reg \cup {name})

\* a plausible slip: a flag that is set before the registration is run, so a
\* call that finds the registration running does not wait for it
call_once_force_no_wait(state) ==
    IF state \in {"Incomplete", "Poisoned"} THEN "run" ELSE "return"

\* Once::call_once_force: what a caller that finds the Once in this state does
call_once_force(state) ==
    CASE state \in {"Incomplete", "Poisoned"} -> "run"
      [] state = "Running" -> "wait"
      [] state = "Complete" -> "return"

\* IntCounter::inc: one atomic increment
inc(count) == count + 1

\* `if let Ok(v) = <procfs reading> { GAUGE.set(v as f64) }`: the gauge is set
\* when the reading succeeds and left alone when it fails
set_if_ok(old, reading) == IF reading # None THEN reading[1] ELSE old

\* what procfs can answer for each reading
MyselfReadings == {None, Some("me")}
FileMaxReadings == {None, Some(1024)}
FdCountReadings == {None, Some(7)}
StatmReadings == {None, Some(100)}

\* Collector::collect of one registered metric: its value now
collect(n, count, g) ==
    CASE n = MonitorMetrics[1] -> count
      [] n = MonitorMetrics[2] -> g.max_fds
      [] n = MonitorMetrics[3] -> g.open_fds
      [] n = MonitorMetrics[4] -> g.resident_memory

\* the metrics a gather has collected so far
Collected(t) == IF scrapes[t] = None THEN {} ELSE {m[1] : m \in scrapes[t][1]}

\* get_metrics is called: the initialization task is spawned
GetMetrics ==
    \E t \in Scrapes :
        /\ pc[t] = "idle"
        /\ pc' = [pc EXCEPT ![t] = "init"]
        /\ UNCHANGED <<convVars, pending, once, registry, scrape_count, gauges, idx,
                       registered, scrapes>>

\* the spawned task enters call_once_force: it runs the closure, or returns at
\* once and the call goes on to update_metrics; it waits while another runs it
CallOnceForce ==
    \E t \in Scrapes :
        /\ pc[t] = "init"
        /\ call_once_force(once) # "wait"
        /\ IF call_once_force(once) = "run"
           THEN /\ once' = "Running"
                /\ pc' = [pc EXCEPT ![t] = "register"]
                /\ idx' = [idx EXCEPT ![t] = 1]
           ELSE /\ pc' = [pc EXCEPT ![t] = "update"]
                /\ UNCHANGED <<once, idx>>
        /\ UNCHANGED <<convVars, pending, registry, scrape_count, gauges, registered,
                       scrapes>>

\* one line of register_metrics.  An error is returned by `?` and unwrap()
\* panics: the Once is poisoned, the spawned task ends with a JoinError and
\* get_metrics returns "failed to init register".  After the fourth line the
\* closure returns, the Once is complete and the call goes on.
RegisterMetrics ==
    \E t \in Scrapes :
        /\ pc[t] = "register"
        /\ LET r == register(registry, MonitorMetrics[idx[t]])
           IN  IF ~r.ok
               THEN /\ once' = "Poisoned"
                    /\ pc' = [pc EXCEPT ![t] = "failed"]
                    /\ idx' = [idx EXCEPT ![t] = 0]
                    /\ UNCHANGED <<registry, registered>>
               ELSE /\ registry' = r.val[1]
                    /\ IF idx[t] = Len(MonitorMetrics)
                       THEN /\ once' = "Complete"
                            /\ registered' = registered + 1
                            /\ pc' = [pc EXCEPT ![t] = "update"]
                            /\ idx' = [idx EXCEPT ![t] = 0]
                       ELSE /\ idx' = [idx EXCEPT ![t] = idx[t] + 1]
                            /\ UNCHANGED <<once, registered, pc>>
        /\ UNCHANGED <<convVars, pending, scrape_count, gauges, scrapes>>

\* update_metrics, line by line; the calls run on different threads and
\* nothing but the atomics themselves orders them.
\* MONITOR_SCRAPE_COUNT.inc()
UpdateMetricsInc ==
    \E t \in Scrapes :
        /\ pc[t] = "update"
        /\ scrape_count' = inc(scrape_count)
        /\ pc' = [pc EXCEPT ![t] = "myself"]
        /\ UNCHANGED <<convVars, pending, once, registry, gauges, idx, registered,
                       scrapes>>

\* Process::myself(): on an error update_metrics returns Ok(()) at once
UpdateMetricsMyself ==
    \E t \in Scrapes, me \in MyselfReadings :
        /\ pc[t] = "myself"
        /\ pc' = [pc EXCEPT ![t] = IF me = None THEN "gather" ELSE "file_max"]
        /\ UNCHANGED <<convVars, pending, once, registry, scrape_count, gauges, idx,
                       registered, scrapes>>

\* procfs::sys::fs::file_max() and MONITOR_MAX_FDS.set
UpdateMetricsMaxFds ==
    \E t \in Scrapes, fds \in FileMaxReadings :
        /\ pc[t] = "file_max"
        /\ gauges' = [gauges EXCEPT !.max_fds = set_if_ok(gauges.max_fds, fds)]
        /\ pc' = [pc EXCEPT ![t] = "fd_count"]
        /\ UNCHANGED <<convVars, pending, once, registry, scrape_count, idx, registered,
                       scrapes>>

\* me.fd_count() and MONITOR_OPEN_FDS.set
UpdateMetricsOpenFds ==
    \E t \in Scrapes, fds \in FdCountReadings :
        /\ pc[t] = "fd_count"
        /\ gauges' = [gauges EXCEPT !.open_fds = set_if_ok(gauges.open_fds, fds)]
        /\ pc' = [pc EXCEPT ![t] = "statm"]
        /\ UNCHANGED <<convVars, pending, once, registry, scrape_count, idx, registered,
                       scrapes>>

\* me.statm() and MONITOR_RESIDENT_MEMORY.set
UpdateMetricsResidentMemory ==
    \E t \in Scrapes, statm \in StatmReadings :
        /\ pc[t] = "statm"
        /\ gauges' = [gauges EXCEPT
                        !.resident_memory = set_if_ok(gauges.resident_memory, statm)]
        /\ pc' = [pc EXCEPT ![t] = "gather"]
        /\ UNCHANGED <<convVars, pending, once, registry, scrape_count, idx, registered,
                       scrapes>>

\* REGISTRY.gather() collects the registered metrics one by one, in the order
\* of the registry's hash map, each at its value of that moment; once all are
\* collected the families are encoded and returned
Gather ==
    \E t \in Scrapes :
        /\ pc[t] = "gather"
        /\ IF registry \subseteq Collected(t)
           THEN /\ scrapes' = [scrapes EXCEPT ![t] =
                                IF scrapes[t] = None THEN Some({}) ELSE scrapes[t]]
                /\ pc' = [pc EXCEPT ![t] = "done"]
           ELSE /\ \E n \in registry \ Collected(t) :
                      scrapes' = [scrapes EXCEPT ![t] =
                                    Some((IF scrapes[t] = None THEN {} ELSE scrapes[t][1])
                                         \cup {<<n, collect(n, scrape_count, gauges)>>})]
                /\ UNCHANGED pc
        /\ UNCHANGED <<convVars, pending, once, registry, scrape_count, gauges, idx,
                       registered>>

MonitorNext ==
    \/ GetMetrics \/ CallOnceForce \/ RegisterMetrics
    \/ UpdateMetricsInc \/ UpdateMetricsMyself \/ UpdateMetricsMaxFds
    \/ UpdateMetricsOpenFds \/ UpdateMetricsResidentMemory
    \/ Gather

MonitorSpec == Init /\ [][MonitorNext]_vars

(***************************************************************************)
(* Properties.                                                             *)
(***************************************************************************)
\* the type-url a create-sandbox request declares ("" when options is unset)
TypeUrlOf(req) == IF req.options = None THEN "" ELSE req.options[1].type_url
\* the config bytes it carries
ConfigBytesOf(req) == IF req.options = None THEN << >> ELSE req.options[1].value

ProcessAddressing ==
    {"TryFrom<CloseIORequest>", "TryFrom<DeleteRequest>", "TryFrom<ExecProcessRequest>",
     "TryFrom<KillRequest>", "TryFrom<WaitRequest>", "TryFrom<StartRequest>",
     "TryFrom<StateRequest>", "TryFrom<ResizePtyRequest>"}
ContainerAddressing ==
    {"TryFrom<PauseRequest>", "TryFrom<ResumeRequest>", "TryFrom<StatsRequest>",
     "TryFrom<ConnectRequest>"}
SandboxDecodes ==
    {"TryFrom<StartSandboxRequest>", "TryFrom<PlatformRequest>",
     "TryFrom<StopSandboxRequest>", "TryFrom<WaitSandboxRequest>",
     "TryFrom<SandboxStatusRequest>", "TryFrom<PingRequest>",
     "TryFrom<ShutdownSandboxRequest>"}
NeverFailing ==
    SandboxDecodes \cup
    {"TryFrom<CreateTaskRequest>", "TryFrom<ShutdownRequest>",
     "TryFrom<UpdateTaskRequest>", "TryFrom<PidsRequest>"}
Decodes ==
    {"TryFrom<CreateSandboxRequest>"} \cup NeverFailing \cup ProcessAddressing
    \cup ContainerAddressing
MalformedIds == {"a/b"}
Stdio == {"stdin", "stdout", "stderr"}

\* C1: a create-sandbox request whose options type-url is not the literal
\* "runtime.v1.PodSandboxConfig" is rejected.  The decoder returns an error and
\* no SandboxRequest; the create_sandbox RPC returns an INVALID_ARGUMENT status
\* and invokes no handler operation.
C1_UnsupportedTypeUrlRejected ==
    /\ (op = "TryFrom<CreateSandboxRequest>"
        /\ TypeUrlOf(arg) # "runtime.v1.PodSandboxConfig")
       => /\ ~ret.ok
          /\ ret.val = None
          /\ ret.err[1].kind = "unsupported type url"
          /\ ret.err[1].cause = TypeUrlOf(arg)
    /\ (op = "create_sandbox"
        /\ TypeUrlOf(arg.req) # "runtime.v1.PodSandboxConfig")
       => /\ ~ret.ok
          /\ ret.val = None
          /\ ret.err[1].error = "RpcStatus"
          /\ ret.err[1].code = "INVALID_ARGUMENT"
          /\ trace = << >>

\* the RPC has rejected a near-miss type-url although the config bytes parse;
\* the handler has not been asked
C1_Witness ==
    /\ op = "create_sandbox"
    /\ TypeUrlOf(arg.req) = "runtime.v1alpha2.PodSandboxConfig"
    /\ ConfigBytesOf(arg.req) = <<18, 1, 104>>
    /\ arg.handler = None
    /\ ~ret.ok
    /\ trace = << >>

\* C2: a process-addressing request (CloseIO, Delete, Exec, Kill, Wait, Start,
\* State, ResizePty) with an empty id or a malformed exec_id fails to decode with
\* an identity error, and no TaskRequest, partial or otherwise, is returned.
C2_InvalidIdentityRejected ==
    (op \in ProcessAddressing /\ (arg.id = "" \/ arg.exec_id \in MalformedIds))
    => /\ ~ret.ok
       /\ ret.val = None
       /\ ret.err[1].kind = "invalid identity"
       /\ ret.err[1].context = <<"new process id">>

\* a kill request with a good id and a malformed exec_id has been rejected
C2_Witness ==
    /\ op = "TryFrom<KillRequest>"
    /\ arg.id = "c1"
    /\ arg.exec_id = "a/b"
    /\ ~ret.ok
    /\ ret.val = None

\* the TaskResponse variants each wire response type is produced for
Namesake(T) ==
    CASE T = "CreateTaskResponse" -> {"CreateContainer"}
      [] T = "DeleteResponse" -> {"DeleteProcess"}
      [] T = "WaitResponse" -> {"WaitProcess"}
      [] T = "StartResponse" -> {"StartProcess"}
      [] T = "StateResponse" -> {"StateProcess"}
      [] T = "StatsResponse" -> {"StatsContainer"}
      [] T = "PidsResponse" -> {"Pid"}
      [] T = "ConnectResponse" -> {"ConnectContainer"}
      [] T = "Empty" -> {"CloseProcessIO", "ExecProcess", "KillProcess",
                         "ShutdownContainer", "PauseContainer", "ResumeContainer",
                         "ResizeProcessPTY", "UpdateContainer"}
WireResponses ==
    {"CreateTaskResponse", "DeleteResponse", "WaitResponse", "StartResponse",
     "StateResponse", "StatsResponse", "PidsResponse", "ConnectResponse", "Empty"}

\* C3: encoding a TaskResponse into a wire response type succeeds exactly for
\* the type's own variant (for Empty, exactly the eight acknowledgment variants);
\* every other pair is Error::UnexpectedResponse carrying the mismatched value
\* and the name of the requested type, and no wire response.
C3_OnlyNamesakeEncodes ==
    op \in WireResponses
    => /\ ret.ok <=> arg.variant \in Namesake(op)
       /\ ret.ok => ret.val[1].message = op
       /\ ~ret.ok => /\ ret.val = None
                     /\ ret.err[1].kind = "UnexpectedResponse"
                     /\ ret.err[1].cause.response = arg
                     /\ ret.err[1].cause.type_name = op

\* TaskResponse::Pid into ConnectResponse has failed, naming ConnectResponse
C3_Witness ==
    /\ op = "ConnectResponse"
    /\ arg.variant = "Pid"
    /\ ~ret.ok
    /\ ret.err[1].cause.type_name = "ConnectResponse"

WireName(st) ==
    CASE st = "Unknown" -> "UNKNOWN"
      [] st = "Created" -> "CREATED"
      [] st = "Running" -> "RUNNING"
      [] st = "Stopped" -> "STOPPED"
      [] st = "Paused" -> "PAUSED"
      [] st = "Pausing" -> "PAUSING"
      [] st = "Exited" -> "EXITED"

\* C4: the ProcessStatus to wire Status mapping: Stopped and Exited both give
\* STOPPED; each of the other five gives the wire status of its own name, which
\* is not STOPPED and which no other variant gives.
C4_StatusMapping ==
    op = "From<ProcessStatus>"
    => /\ arg.variant \in {"Stopped", "Exited"} => ret.status = "STOPPED"
       /\ arg.variant \notin {"Stopped", "Exited"}
          => /\ ret.status = WireName(arg.variant)
             /\ ret.status # "STOPPED"
             /\ \A other \in ProcessStatuses \ {arg.variant} :
                    From_ProcessStatus_for_Status(other) # ret.status

\* Exited has been encoded as STOPPED
C4_Witness ==
    /\ op = "From<ProcessStatus>"
    /\ arg.variant = "Exited"
    /\ ret.status = "STOPPED"

\* the exit timestamp of the value an encoding was made from
ExitTimeOf(o, a) == IF o = "WaitResponse::from" THEN a.exit_time ELSE a.exited_at
TimedResponses == {"WaitResponse::from", "StateResponse::from", "DeleteResponse::from"}

\* C5 as stated: in WaitResponse, StateResponse and DeleteResponse exited_at is
\* set iff the exit timestamp is present, and a present timestamp is encoded
\* with its seconds since the Unix epoch.
C5_Original ==
    op \in TimedResponses
    => /\ ret.exited_at # None <=> ExitTimeOf(op, arg) # None
       /\ ExitTimeOf(op, arg) # None
          => ret.exited_at[1].seconds = ExitTimeOf(op, arg)[1].sec

\* C5 (amended): in WaitResponse, StateResponse and DeleteResponse exited_at is
\* set iff the exit timestamp is present (an absent one is never a present
\* timestamp with seconds = 0); a present timestamp at or after the Unix epoch is
\* encoded with its whole seconds since the epoch, and a present timestamp
\* before the epoch is encoded as a set field with seconds = 0.
C5_ExitedAtSetIffPresent ==
    op \in TimedResponses
    => /\ ret.exited_at # None <=> ExitTimeOf(op, arg) # None
       /\ (ExitTimeOf(op, arg) # None /\ ExitTimeOf(op, arg)[1].sec >= 0)
          => ret.exited_at[1].seconds = ExitTimeOf(op, arg)[1].sec
       /\ (ExitTimeOf(op, arg) # None /\ ExitTimeOf(op, arg)[1].sec < 0)
          => ret.exited_at[1].seconds = 0

\* a process state without an exit timestamp has been encoded into a
\* DeleteResponse with exited_at unset
C5_Witness ==
    /\ op = "DeleteResponse::from"
    /\ arg.exited_at = None
    /\ ret.exited_at = None

\* C6: in a decoded CreateTask or Exec request each of stdin, stdout and stderr
\* is absent iff the wire string is empty and otherwise holds exactly the wire
\* string; a present empty path is never produced.
C6_StdioNormalized ==
    (op \in {"TryFrom<CreateTaskRequest>", "TryFrom<ExecProcessRequest>"} /\ ret.ok)
    => \A f \in Stdio :
          /\ ret.val[1][f] = None <=> arg[f] = ""
          /\ arg[f] # "" => ret.val[1][f] = Some(arg[f])
          /\ ret.val[1][f] # Some("")

\* a CreateTask request with an empty stdin and a set stdout has been decoded
C6_Witness ==
    /\ op = "TryFrom<CreateTaskRequest>"
    /\ arg.id = "c1"
    /\ arg.stdin = ""
    /\ arg.stdout = "/io"
    /\ ret.val[1].stdin = None
    /\ ret.val[1].stdout = Some("/io")

\* the stdio paths of an encoded StateResponse, sent back in through the two
\* request decoders that carry stdio
RedecodedByCreateTask(resp) ==
    TryFrom_CreateTaskRequest(
        [id |-> "c1", bundle |-> "/b", rootfs |-> << >>, terminal |-> FALSE,
         options |-> None, stdin |-> resp.stdin, stdout |-> resp.stdout,
         stderr |-> resp.stderr]).val[1]
RedecodedByExec(resp) ==
    TryFrom_ExecProcessRequest(
        [id |-> "c1", exec_id |-> "e1", terminal |-> FALSE, stdin |-> resp.stdin,
         stdout |-> resp.stdout, stderr |-> resp.stderr, spec |-> None]).val[1]

\* C7: an absent stdio path encoded into a StateResponse and decoded again is
\* absent, never a present empty string, and a present non-empty path comes
\* back unchanged.
C7_StdioRoundTrip ==
    op = "StateResponse::from"
    => \A f \in Stdio :
          /\ arg[f] = None
             => /\ RedecodedByCreateTask(ret)[f] = None
                /\ RedecodedByExec(ret)[f] = None
          /\ (arg[f] # None /\ arg[f] # Some(""))
             => /\ RedecodedByCreateTask(ret)[f] = arg[f]
                /\ RedecodedByExec(ret)[f] = arg[f]

\* a state with no stdin and a set stdout has been encoded: "" and the path
C7_Witness ==
    /\ op = "StateResponse::from"
    /\ arg.stdin = None
    /\ arg.stdout = Some("/out")
    /\ ret.stdin = ""
    /\ ret.stdout = "/out"
    /\ RedecodedByCreateTask(ret).stdin = None

\* C8: a normalized mount is read-only iff some option equals "ro", wherever it
\* stands; options, source, target and type are copied as they are; device_id
\* and host_shared_fs_path are unset.
C8_MountNormalized ==
    op = "trans_from_shim_mount"
    => /\ ret.read_only <=> \E i \in 1..Len(arg.options) : arg.options[i] = "ro"
       /\ ret.options = arg.options
       /\ ret.source = arg.source
       /\ ret.destination = arg.target
       /\ ret.fs_type = arg.type_
       /\ ret.device_id = None
       /\ ret.host_shared_fs_path = None

\* "ro" in the last place, after a near miss, has made the mount read-only
C8_Witness ==
    /\ op = "trans_from_shim_mount"
    /\ arg.options = <<"rw", "RO", "ro">>
    /\ ret.read_only

\* the bytes of an Any field of a request (none when the field is unset)
BytesOf(field) == IF field = None THEN << >> ELSE field[1].value

\* what a successful decode keeps of the request it was made from
Retained ==
    /\ op \in SandboxDecodes \cup {"TryFrom<CreateSandboxRequest>"}
       => ret.val[1].sandbox_id = arg.sandbox_id
    /\ op = "TryFrom<StopSandboxRequest>" => ret.val[1].timeout_secs = arg.timeout_secs
    /\ op = "TryFrom<SandboxStatusRequest>" => ret.val[1].verbose = arg.verbose
    /\ op \in ProcessAddressing
       => /\ ret.val[1].process.container_id.container_id = arg.id
          /\ ret.val[1].process.exec_id
                = (IF arg.exec_id = "" THEN None ELSE Some(arg.exec_id))
    /\ op \in ContainerAddressing
       => ret.val[1].container_id.container_id = arg.id
    /\ op = "TryFrom<KillRequest>"
       => ret.val[1].signal = arg.signal /\ ret.val[1].all = arg.all
    /\ op = "TryFrom<ResizePtyRequest>"
       => ret.val[1].width = arg.width /\ ret.val[1].height = arg.height
    /\ op = "TryFrom<ShutdownRequest>"
       => ret.val[1].container_id = arg.id /\ ret.val[1].is_now = arg.now
    /\ op = "TryFrom<UpdateTaskRequest>"
       => ret.val[1].container_id = arg.id /\ ret.val[1].value = BytesOf(arg.resources)
    /\ op = "TryFrom<ExecProcessRequest>"
       => /\ ret.val[1].spec_type_url = AnyOrDefault(arg.spec).type_url
          /\ ret.val[1].spec_value = BytesOf(arg.spec)
          /\ ret.val[1].terminal = arg.terminal
    /\ op = "TryFrom<CreateTaskRequest>"
       => /\ ret.val[1].container_id = arg.id
          /\ ret.val[1].bundle = arg.bundle
          /\ ret.val[1].terminal = arg.terminal
          /\ ret.val[1].options = None <=> arg.options = None
          /\ arg.options # None => ret.val[1].options = Some(arg.options[1].value)
          /\ Len(ret.val[1].rootfs_mounts) = Len(arg.rootfs)

\* C9 as stated: a successful decode yields a command from which every field of
\* the request can be recovered, in particular the ids of Pids, Shutdown,
\* UpdateTask and Connect requests, Exec's spec type-url and bytes, and the bytes
\* of CreateTask options and UpdateTask resources.  For Pids: no request with
\* another id decodes to the same command.
C9_Original ==
    (op \in Decodes /\ ret.ok)
    => /\ Retained
       /\ op = "TryFrom<PidsRequest>"
          => \A t \in IdRequests :
                TryFrom_PidsRequest(IdRequest(t)) = ret => IdRequest(t) = arg

\* C9 (amended): a successful decode keeps the sandbox id of every sandbox
\* request, the id and exec_id of every process-addressing request, the id of
\* Pause, Resume, Stats, Connect, Shutdown, UpdateTask and CreateTask requests,
\* the scalar arguments of Stop, Status, Kill, ResizePty and Shutdown, the
\* type-url and bytes of Exec's process spec, and the bytes of CreateTask
\* options and UpdateTask resources.  A Pids request is the exception: it
\* decodes to the payload-free TaskRequest::Pid whatever its id, so its id
\* cannot be recovered.
C9_FieldsRetained ==
    (op \in Decodes /\ ret.ok)
    => /\ Retained
       /\ op = "TryFrom<PidsRequest>" => ret.val[1] = [variant |-> "Pid"]

\* the Exec request of id "c1", exec_id "e1", spec ("x", [1,2,3]) has been decoded
C9_Witness ==
    /\ op = "TryFrom<ExecProcessRequest>"
    /\ arg.id = "c1"
    /\ arg.exec_id = "e1"
    /\ arg.spec = Some([type_url |-> "x", value |-> <<1, 2, 3>>])
    /\ ret.ok
    /\ ret.val[1].process.exec_id = Some("e1")
    /\ ret.val[1].spec_type_url = "x"
    /\ ret.val[1].spec_value = <<1, 2, 3>>

\* the causes of a decode failure
UnsupportedTypeUrl ==
    op = "TryFrom<CreateSandboxRequest>" /\ TypeUrlOf(arg) # SANDBOX_API_V1
InvalidIdentity ==
    \/ op \in ProcessAddressing
       /\ (~verify_id(arg.id) \/ (arg.exec_id # "" /\ ~verify_id(arg.exec_id)))
    \/ op \in ContainerAddressing /\ ~verify_id(arg.id)
UnparsableConfig ==
    /\ op = "TryFrom<CreateSandboxRequest>"
    /\ TypeUrlOf(arg) = SANDBOX_API_V1
    /\ ~parse_from_bytes(ConfigBytesOf(arg)).ok

\* C10 as stated: a decode fails only for an unsupported type-url (CreateSandbox)
\* or an invalid identity; a CreateSandbox request with the supported type-url
\* always decodes, and the sandbox requests other than create, CreateTask,
\* Shutdown, UpdateTask and Pids never fail.
C10_Original ==
    op \in Decodes
    => /\ ~ret.ok => (UnsupportedTypeUrl \/ InvalidIdentity)
       /\ (op = "TryFrom<CreateSandboxRequest>" /\ TypeUrlOf(arg) = SANDBOX_API_V1)
          => ret.ok
       /\ op \in NeverFailing => ret.ok

\* C10 (amended): a decode fails only for an unsupported type-url (CreateSandbox),
\* for config bytes that do not parse as a PodSandboxConfig (CreateSandbox with
\* the supported type-url), or for an invalid identity; a CreateSandbox request
\* with the supported type-url and parsable config bytes always decodes, and the
\* sandbox requests other than create, CreateTask, Shutdown, UpdateTask and Pids
\* never fail.
C10_FailureCauses ==
    op \in Decodes
    => /\ ~ret.ok => (UnsupportedTypeUrl \/ UnparsableConfig \/ InvalidIdentity)
       /\ (op = "TryFrom<CreateSandboxRequest>" /\ TypeUrlOf(arg) = SANDBOX_API_V1
           /\ parse_from_bytes(ConfigBytesOf(arg)).ok)
          => ret.ok
       /\ op \in NeverFailing => ret.ok

\* a CreateSandbox request with the supported type-url and a hostname cut short
\* has failed to decode, with the parser's error
C10_Witness ==
    /\ op = "TryFrom<CreateSandboxRequest>"
    /\ TypeUrlOf(arg) = SANDBOX_API_V1
    /\ ConfigBytesOf(arg) = <<18, 2, 104>>
    /\ ~ret.ok
    /\ ret.err[1].kind = "protobuf parse error"

\* the exit code of the value an encoder was applied to
ExitCodeOf(o, a) == IF o = "WaitResponse::from" THEN a.exit_code ELSE a.exit_status

\* the u32 r (two 16-bit halves) is numerically the integer n
U32Equals(r, n) == n >= 0 /\ r.hi < 32768 /\ r.hi * 65536 + r.lo = n

\* the u32 r is numerically n + 2^32, for a negative i32 n
U32EqualsWrapped(r, n) ==
    /\ n < 0
    /\ r.hi >= 32768
    /\ (r.hi - 65536) * 65536 + r.lo = n

\* the TaskResponse variants that carry an exit code, by the wire type that
\* encodes them
ExitCodeVariants == {"WaitResponse", "StateResponse", "DeleteResponse"}
ExitCodeOfResponse(a) ==
    IF a.variant = "WaitProcess" THEN a.resp.exit_code ELSE a.resp.exit_status

\* C11 as stated: the exit_status of an encoded WaitResponse, StateResponse or
\* DeleteResponse is numerically equal to the internal exit code, whatever
\* value the exit code holds.
C11_Original ==
    /\ op \in TimedResponses => U32Equals(ret.exit_status, ExitCodeOf(op, arg))
    /\ (op \in ExitCodeVariants /\ ret.ok)
       => U32Equals(ret.val[1].exit_status, ExitCodeOfResponse(arg))

\* C11 (amended): the exit_status of an encoded WaitResponse, StateResponse or
\* DeleteResponse is numerically equal to the internal exit code when that
\* code is not negative (a DeleteProcess result with exit status 137 encodes to
\* exit_status = 137); a negative exit code c is encoded as c + 2^32 (-1 as
\* 4294967295).
C11_ExitStatusCast ==
    /\ op \in TimedResponses
       => IF ExitCodeOf(op, arg) >= 0
          THEN U32Equals(ret.exit_status, ExitCodeOf(op, arg))
          ELSE U32EqualsWrapped(ret.exit_status, ExitCodeOf(op, arg))
    /\ (op \in ExitCodeVariants /\ ret.ok)
       => IF ExitCodeOfResponse(arg) >= 0
          THEN U32Equals(ret.val[1].exit_status, ExitCodeOfResponse(arg))
          ELSE U32EqualsWrapped(ret.val[1].exit_status, ExitCodeOfResponse(arg))

\* an exit status with exit code -1 has been encoded into a WaitResponse whose
\* exit_status is 4294967295 (both halves 65535)
C11_Witness ==
    /\ op = "WaitResponse::from"
    /\ arg.exit_code = -1
    /\ ret.exit_status = [hi |-> 65535, lo |-> 65535]

\* the RPCs that forward to the handler, and the handler operation of each
ForwardingRpcs ==
    {"create_sandbox", "start_sandbox", "stop_sandbox", "wait_sandbox",
     "sandbox_status", "shutdown_sandbox"}
HandlerCallOf(rpc) ==
    CASE rpc = "create_sandbox" -> "sandbox_api_create"
      [] rpc = "start_sandbox" -> "sandbox_api_start"
      [] rpc = "stop_sandbox" -> "sandbox_api_stop"
      [] rpc = "wait_sandbox" -> "sandbox_api_wait"
      [] rpc = "sandbox_status" -> "sandbox_api_status"
      [] rpc = "shutdown_sandbox" -> "sandbox_api_shutdown"

\* a create_sandbox request that gets as far as the handler
Accepted(req) ==
    /\ TypeUrlOf(req) = "runtime.v1.PodSandboxConfig"
    /\ parse_from_bytes(ConfigBytesOf(req)).ok

\* C13: each of create_sandbox (once its request is accepted), start_sandbox,
\* stop_sandbox, wait_sandbox, sandbox_status and shutdown_sandbox invokes its
\* handler operation exactly once; the RPC returns an error and no response
\* exactly when that call failed, the error carrying the handler's, and returns
\* a response exactly when it succeeded.  While such an RPC awaits the handler
\* it has entered that one call and no other, whatever other RPCs run
\* meanwhile.
C13_BackendFailureForwarded ==
    /\ \A p \in BagToSet(pending) :
          /\ p.rpc \in ForwardingRpcs
          /\ p.rpc = "create_sandbox" => Accepted(p.req)
          /\ Len(p.trace) = 1
          /\ p.trace[1].call = HandlerCallOf(p.rpc)
    /\ (op \in ForwardingRpcs /\ (op = "create_sandbox" => Accepted(arg.req)))
       => /\ Len(trace) = 1
          /\ trace[1].call = HandlerCallOf(op)
          /\ ~arg.handler.ok
             => /\ ~ret.ok
                /\ ret.val = None
                /\ ret.err[1].error = "Others"
                /\ ret.err[1].message[2] = arg.handler.err[1]
          /\ arg.handler.ok
             => /\ ret.ok
                /\ ret.val # None
                /\ ret.err = None

\* stop_sandbox has called sandbox_api_stop once, the call has failed and the
\* RPC has returned the failure, while a create_sandbox still awaits the handler
C13_Witness ==
    /\ \E p \in BagToSet(pending) : p.rpc = "create_sandbox"
    /\ op = "stop_sandbox"
    /\ ~arg.handler.ok
    /\ trace = <<[call |-> "sandbox_api_stop"]>>
    /\ ~ret.ok
    /\ ret.err[1] = Others(<<"failed to stop: ", "backend failure">>)

\* C14: a successful sandbox_status RPC returns the snapshot's sandbox_id, pid
\* and state; info, created_at, exited_at and extra stay at their unset
\* defaults whatever the snapshot holds; and no other request (sandbox_id,
\* verbose) would have been answered differently.
C14_StatusResponseFields ==
    (op = "sandbox_status" /\ ret.ok)
    => /\ ret.val[1].sandbox_id = arg.handler.val[1].sandbox_id
       /\ ret.val[1].pid = arg.handler.val[1].pid
       /\ ret.val[1].state = arg.handler.val[1].state
       /\ ret.val[1].info = {}
       /\ ret.val[1].created_at = None
       /\ ret.val[1].exited_at = None
       /\ ret.val[1].extra = None
       /\ \A t \in SandboxStatusRequests :
             sandbox_status(SandboxStatusRequest(t), arg.handler).ret = ret

\* a verbose status request for "sb1" has been answered from a snapshot of
\* another id that holds info and both timestamps
C14_Witness ==
    /\ op = "sandbox_status"
    /\ arg.req = [sandbox_id |-> "sb1", verbose |-> TRUE]
    /\ arg.handler.ok
    /\ arg.handler.val[1] = SandboxStatus(<<"", 42, "running", {<<"k", "v">>}, 5, 9>>)
    /\ ret.ok
    /\ ret.val[1].sandbox_id = ""
    /\ ret.val[1].pid = 42
    /\ ret.val[1].state = "running"
    /\ ret.val[1].info = {}

\* the get_metrics calls that have got past initialization, and those of them
\* that have incremented the scrape counter
PastInit ==
    {t \in Scrapes :
        pc[t] \in {"update", "myself", "file_max", "fd_count", "statm", "gather", "done"}}
Updated ==
    {t \in Scrapes : pc[t] \in {"myself", "file_max", "fd_count", "statm", "gather", "done"}}
AllRegistered == {MonitorMetrics[i] : i \in 1..Len(MonitorMetrics)}

\* C15: under any interleaving of concurrent get_metrics calls,
\* register_metrics returns Ok at most once; a call is past initialization, and
\* gathers, only with the Once complete and all four metrics registered; and
\* the scrape count is the number of calls that have incremented it, each call
\* having added exactly one, whatever procfs answered.
C15_RegisterOnceCountScrapes ==
    /\ registered <= 1
    /\ \A t \in PastInit : once = "Complete" /\ registry = AllRegistered /\ registered = 1
    /\ \A t \in Scrapes :
          pc[t] = "done" => {m[1] : m \in scrapes[t][1]} = AllRegistered
    /\ scrape_count = Cardinality(Updated)
    /\ \A t \in Scrapes :
          \A m \in (IF scrapes[t] = None THEN {} ELSE scrapes[t][1]) :
              m[1] = MonitorMetrics[1] => (m[2] >= 1 /\ m[2] <= scrape_count)

\* two get_metrics calls have finished and one registration has been made; the
\* first to count was held before its gauge writes while the other, which
\* could not read procfs, scraped count 2 with the gauges unset; then the first
\* set its gauges and scraped count 2 as well
C15_Witness ==
    \E t, u \in Scrapes :
        /\ t # u
        /\ pc[t] = "done"
        /\ pc[u] = "done"
        /\ registered = 1
        /\ scrape_count = 2
        /\ scrapes[t][1] = {<<MonitorMetrics[1], 2>>, <<MonitorMetrics[2], 0>>,
                            <<MonitorMetrics[3], 0>>, <<MonitorMetrics[4], 0>>}
        /\ scrapes[u][1] = {<<MonitorMetrics[1], 2>>, <<MonitorMetrics[2], 1024>>,
                            <<MonitorMetrics[3], 7>>, <<MonitorMetrics[4], 100>>}

====
